---- MODULE Spec2Model ----
(***************************************************************************)
(* Model of scripts/merge_appconfig.py: the merge of a desired (Terraform) *)
(* feature-flag configuration with the configuration observed in AWS      *)
(* AppConfig, the functional-equivalence comparison and the file writer.   *)
(*                                                                         *)
(* Python values are tagged pairs, the type first:                         *)
(*   None -> <<"none">>               int  -> <<"int", n>>                 *)
(*   bool -> <<"bool", b>>            str  -> <<"str", s>>                 *)
(*   list -> <<"list", <<items>> >>                                        *)
(*   dict -> <<"dict", << <<key, value>>, ... >> >>                        *)
(* A dict keeps its items in insertion order, as a Python dict does; its   *)
(* keys are distinct strings.                                              *)
(***************************************************************************)
EXTENDS Integers, Sequences, FiniteSets, TLC

(***************************************************************************)
(* Bounds of the model.                                                    *)
(***************************************************************************)
\* Longest list of primitives drawn as an input of the comparison.
MaxListLen == 2

(***************************************************************************)
(* Python values.                                                          *)
(***************************************************************************)
None == <<"none">>
PyInt(n) == <<"int", n>>
PyBool(b) == <<"bool", b>>
PyStr(s) == <<"str", s>>
PyList(items) == <<"list", items>>
PyDict(items) == <<"dict", items>>

\* The exception a handler catches, as the value of the expression raising it.
TypeError == <<"TypeError">>
JSONDecodeError == <<"JSONDecodeError">>

\* d.keys(), in order
keys(d) == [i \in 1..Len(d[2]) |-> d[2][i][1]]
\* set(d.keys())
keyset(d) == {d[2][i][1] : i \in 1..Len(d[2])}
\* key in d
has(d, key) == key \in keyset(d)
\* d[key]
item(d, key) == d[2][CHOOSE i \in 1..Len(d[2]) : d[2][i][1] = key][2]
\* d.get(key, default)
get(d, key, default) == IF has(d, key) THEN item(d, key) ELSE default
\* d[key] = value: replaces in place, or appends a new key at the end
setitem(d, key, value) ==
    IF has(d, key)
    THEN PyDict([i \in 1..Len(d[2]) |-> IF d[2][i][1] = key THEN <<key, value>> ELSE d[2][i]])
    ELSE PyDict(Append(d[2], <<key, value>>))
\* truth value of an object: None and empty containers are falsy
truthy(obj) ==
    CASE obj[1] = "none" -> FALSE
      [] obj[1] \in {"dict", "list"} -> Len(obj[2]) > 0
      [] obj[1] = "bool" -> obj[2]
      [] obj[1] = "int" -> obj[2] # 0
      [] obj[1] = "str" -> Len(obj[2]) > 0
      [] OTHER -> TRUE

\* key.startswith('_')
startswith_underscore(key) == Len(key) > 0 /\ SubSeq(key, 1, 1) = "_"

(***************************************************************************)
(* Ordering of Python values, as used by sorted() and by sort_keys.        *)
(***************************************************************************)
\* The characters of the model's strings, in code point order.
Alphabet == "0123456789ABCDEFGHIJKLMNOPQRSTUVWXYZ_abcdefghijklmnopqrstuvwxyz"
ord(c) == CHOOSE i \in 1..Len(Alphabet) : SubSeq(Alphabet, i, i) = c

\* s1 < s2 on str: lexicographic by code point
RECURSIVE str_lt(_, _)
str_lt(s1, s2) ==
    IF Len(s2) = 0 THEN FALSE
    ELSE IF Len(s1) = 0 THEN TRUE
    ELSE LET c1 == ord(SubSeq(s1, 1, 1))
             c2 == ord(SubSeq(s2, 1, 1))
         IN IF c1 # c2 THEN c1 < c2
            ELSE str_lt(SubSeq(s1, 2, Len(s1)), SubSeq(s2, 2, Len(s2)))

\* The number a bool or int compares as: True is 1, False is 0.
number(x) == IF x[1] = "bool" THEN (IF x[2] THEN 1 ELSE 0) ELSE x[2]

\* isinstance(item, (int, float, str, bool))
is_simple(x) == x[1] \in {"int", "str", "bool"}

\* x < y on simple values; str against a number raises TypeError
comparable(x, y) == (x[1] = "str") = (y[1] = "str")
lt(x, y) == IF x[1] = "str" THEN str_lt(x[2], y[2]) ELSE number(x) < number(y)

\* Stable insertion of x into a sorted sequence: after every element not
\* greater than it.
RECURSIVE insert_sorted(_, _)
insert_sorted(sorted_seq, x) ==
    IF Len(sorted_seq) = 0 THEN <<x>>
    ELSE LET last == sorted_seq[Len(sorted_seq)]
         IN IF lt(x, last)
            THEN Append(insert_sorted(SubSeq(sorted_seq, 1, Len(sorted_seq) - 1), x), last)
            ELSE Append(sorted_seq, x)

RECURSIVE sort_from(_, _)
sort_from(done, rest) ==
    IF Len(rest) = 0 THEN done
    ELSE sort_from(insert_sorted(done, Head(rest)), Tail(rest))

\* sorted(obj) on a list of simple values: a stable sort, which raises
\* TypeError when it has to compare a str with a number.
sorted(items) ==
    IF \E i, j \in 1..Len(items) : ~comparable(items[i], items[j])
    THEN TypeError
    ELSE PyList(sort_from(<<>>, items))

(***************************************************************************)
(* normalize_for_comparison                                                *)
(***************************************************************************)
RECURSIVE normalize_for_comparison(_)
normalize_for_comparison(obj) ==
    IF obj[1] = "dict" THEN
        LET kept == SelectSeq(obj[2], LAMBDA p : ~startswith_underscore(p[1]))
            result == [i \in 1..Len(kept) |->
                          <<kept[i][1], normalize_for_comparison(kept[i][2])>>]
        IN IF \E i \in 1..Len(result) : result[i][2] = TypeError
           THEN TypeError
           ELSE PyDict(result)
    ELSE IF obj[1] = "list" THEN
        IF \A i \in 1..Len(obj[2]) : is_simple(obj[2][i])
        THEN sorted(obj[2])
        ELSE LET result == [i \in 1..Len(obj[2]) |-> normalize_for_comparison(obj[2][i])]
             IN IF \E i \in 1..Len(result) : result[i] = TypeError
                THEN TypeError
                ELSE PyList(result)
    ELSE obj

(***************************************************************************)
(* json.dumps / json.dump and json.loads / json.load.  A JSON text is the  *)
(* sequence of its tokens; white space (indent=2) is not kept.             *)
(***************************************************************************)
\* The items of a dict sorted by key (sort_keys=True); keys are distinct.
RECURSIVE insert_item(_, _)
insert_item(sorted_items, p) ==
    IF Len(sorted_items) = 0 THEN <<p>>
    ELSE LET last == sorted_items[Len(sorted_items)]
         IN IF str_lt(p[1], last[1])
            THEN Append(insert_item(SubSeq(sorted_items, 1, Len(sorted_items) - 1), p), last)
            ELSE Append(sorted_items, p)

RECURSIVE sort_items(_, _)
sort_items(done, rest) ==
    IF Len(rest) = 0 THEN done
    ELSE sort_items(insert_item(done, Head(rest)), Tail(rest))

quote(s) == "\"" \o s \o "\""

RECURSIVE json_dumps(_, _), dumps_elements(_, _), dumps_members(_, _)
json_dumps(obj, sort_keys) ==
    CASE obj[1] = "none" -> <<"null">>
      [] obj[1] = "bool" -> <<IF obj[2] THEN "true" ELSE "false">>
      [] obj[1] = "int"  -> <<ToString(obj[2])>>
      [] obj[1] = "str"  -> <<quote(obj[2])>>
      [] obj[1] = "list" -> <<"[">> \o dumps_elements(obj[2], sort_keys) \o <<"]">>
      [] obj[1] = "dict" ->
            <<"{">> \o dumps_members(IF sort_keys THEN sort_items(<<>>, obj[2]) ELSE obj[2],
                                     sort_keys) \o <<"}">>
dumps_elements(items, sort_keys) ==
    IF Len(items) = 0 THEN <<>>
    ELSE json_dumps(Head(items), sort_keys)
         \o (IF Len(items) > 1 THEN <<",">> ELSE <<>>)
         \o dumps_elements(Tail(items), sort_keys)
dumps_members(items, sort_keys) ==
    IF Len(items) = 0 THEN <<>>
    ELSE <<quote(Head(items)[1]), ":">> \o json_dumps(Head(items)[2], sort_keys)
         \o (IF Len(items) > 1 THEN <<",">> ELSE <<>>)
         \o dumps_members(Tail(items), sort_keys)

\* int(token) for a token of decimal digits
RECURSIVE atoi(_, _)
atoi(acc, digits) ==
    IF Len(digits) = 0 THEN acc
    ELSE atoi(10 * acc + (ord(SubSeq(digits, 1, 1)) - 1), SubSeq(digits, 2, Len(digits)))

is_string_token(tok) == Len(tok) >= 2 /\ SubSeq(tok, 1, 1) = "\""
unquote(tok) == SubSeq(tok, 2, Len(tok) - 1)

scalar(tok) ==
    CASE tok = "null" -> None
      [] tok = "true" -> PyBool(TRUE)
      [] tok = "false" -> PyBool(FALSE)
      [] is_string_token(tok) -> PyStr(unquote(tok))
      [] OTHER -> PyInt(atoi(0, tok))

\* The decoder: [ok, value, rest] for the value at the head of the tokens, or
\* [ok |-> FALSE] where the text is not JSON (a truncated file).
ParseFail == [ok |-> FALSE, value |-> None, rest |-> <<>>]
RECURSIVE parse_value(_), parse_members(_, _), parse_elements(_, _)
parse_value(toks) ==
    IF Len(toks) = 0 THEN ParseFail
    ELSE LET h == Head(toks)
             r == Tail(toks)
         IN IF h = "{" THEN
                IF Len(r) > 0 /\ Head(r) = "}"
                THEN [ok |-> TRUE, value |-> PyDict(<<>>), rest |-> Tail(r)]
                ELSE parse_members(r, PyDict(<<>>))
            ELSE IF h = "[" THEN
                IF Len(r) > 0 /\ Head(r) = "]"
                THEN [ok |-> TRUE, value |-> PyList(<<>>), rest |-> Tail(r)]
                ELSE parse_elements(r, <<>>)
            ELSE IF h \in {"}", "]", ",", ":"} THEN ParseFail
            ELSE [ok |-> TRUE, value |-> scalar(h), rest |-> r]
parse_members(toks, acc) ==
    IF Len(toks) < 3 THEN ParseFail
    ELSE IF ~is_string_token(toks[1]) \/ toks[2] # ":" THEN ParseFail
    ELSE LET r == parse_value(SubSeq(toks, 3, Len(toks)))
         IN IF ~r.ok THEN ParseFail
            ELSE IF Len(r.rest) = 0 THEN ParseFail
            ELSE LET acc2 == setitem(acc, unquote(toks[1]), r.value)
                 IN IF Head(r.rest) = "}"
                    THEN [ok |-> TRUE, value |-> acc2, rest |-> Tail(r.rest)]
                    ELSE IF Head(r.rest) = ","
                    THEN parse_members(Tail(r.rest), acc2)
                    ELSE ParseFail
parse_elements(toks, acc) ==
    LET r == parse_value(toks)
    IN IF ~r.ok THEN ParseFail
       ELSE IF Len(r.rest) = 0 THEN ParseFail
       ELSE LET acc2 == Append(acc, r.value)
            IN IF Head(r.rest) = "]"
               THEN [ok |-> TRUE, value |-> PyList(acc2), rest |-> Tail(r.rest)]
               ELSE IF Head(r.rest) = ","
               THEN parse_elements(Tail(r.rest), acc2)
               ELSE ParseFail

\* json.loads(text): the value, or JSONDecodeError
json_loads(text) ==
    LET r == parse_value(text)
    IN IF r.ok THEN (IF Len(r.rest) = 0 THEN r.value ELSE JSONDecodeError)
       ELSE JSONDecodeError

(***************************************************************************)
(* configs_are_functionally_equivalent                                     *)
(***************************************************************************)
\* hashlib.md5(s.encode()).hexdigest(): the digest is taken to be free of
\* collisions, so it is the text under a tag.
md5_hexdigest(json_str) == <<"md5">> \o json_str

\* PyBool(are_equivalent), or TypeError when normalize_for_comparison raises.
configs_are_functionally_equivalent(config1, config2) ==
    LET flags1 == normalize_for_comparison(get(config1, "flags", PyDict(<<>>)))
        values1 == normalize_for_comparison(get(config1, "values", PyDict(<<>>)))
        version1 == normalize_for_comparison(get(config1, "version", PyStr("")))
        flags2 == normalize_for_comparison(get(config2, "flags", PyDict(<<>>)))
        values2 == normalize_for_comparison(get(config2, "values", PyDict(<<>>)))
        version2 == normalize_for_comparison(get(config2, "version", PyStr("")))
    IN IF TypeError \in {flags1, values1, version1, flags2, values2, version2}
       THEN TypeError
       ELSE LET normalized1 == PyDict(<< <<"flags", flags1>>, <<"values", values1>>,
                                         <<"version", version1>> >>)
                normalized2 == PyDict(<< <<"flags", flags2>>, <<"values", values2>>,
                                         <<"version", version2>> >>)
                json_str1 == json_dumps(normalized1, TRUE)
                json_str2 == json_dumps(normalized2, TRUE)
                hash1 == md5_hexdigest(json_str1)
                hash2 == md5_hexdigest(json_str2)
            IN PyBool(hash1 = hash2)

(***************************************************************************)
(* create_merged_config                                                    *)
(***************************************************************************)
\* sys.exit(1), as the value of the call that exits
SystemExit == <<"SystemExit">>

EmptyDict == PyDict(<<>>)

\* The loop "for key in current_config['values'][flag_name]": every key
\* starting with an underscore is assigned from the observed value set.
RECURSIVE preserve_metadata(_, _, _)
preserve_metadata(value_set, observed_set, todo) ==
    IF Len(todo) = 0 THEN value_set
    ELSE LET key == Head(todo)
         IN preserve_metadata(
                IF startswith_underscore(key)
                THEN setitem(value_set, key, item(observed_set, key))
                ELSE value_set,
                observed_set, Tail(todo))

\* add_new_attributes without the test that the attribute is absent from the
\* merged value set: the desired value replaces an observed one.
RECURSIVE add_new_attributes_overwriting(_, _, _)
add_new_attributes_overwriting(value_set, desired_set, todo) ==
    IF Len(todo) = 0 THEN value_set
    ELSE LET attr_name == Head(todo)
         IN add_new_attributes_overwriting(
                IF has(desired_set, attr_name)
                THEN setitem(value_set, attr_name, item(desired_set, attr_name))
                ELSE value_set,
                desired_set, Tail(todo))

\* The loop "for attr_name in flag_def.get('attributes', {})": an attribute
\* absent from the merged value set and present in the desired value set is
\* added with the desired value.
RECURSIVE add_new_attributes(_, _, _)
add_new_attributes(value_set, desired_set, todo) ==
    IF Len(todo) = 0 THEN value_set
    ELSE LET attr_name == Head(todo)
         IN add_new_attributes(
                IF ~has(value_set, attr_name) /\ has(desired_set, attr_name)
                THEN setitem(value_set, attr_name, item(desired_set, attr_name))
                ELSE value_set,
                desired_set, Tail(todo))

\* merged_value_set adding every key of the desired value set that the observed
\* value set lacks, declared in the flag definition's "attributes" or not.
merged_value_set_all_desired_keys(terraform_config, current_config, flag_name) ==
    LET current_values == get(current_config, "values", EmptyDict)
        desired_set == get(item(terraform_config, "values"), flag_name, EmptyDict)
    IN IF has(current_values, flag_name)
       THEN LET observed_set == item(current_values, flag_name)
                preserved == preserve_metadata(observed_set, observed_set, keys(observed_set))
            IN add_new_attributes(preserved, desired_set, keys(desired_set))
       ELSE get(item(terraform_config, "values"), flag_name,
                PyDict(<< <<"enabled", PyStr("false")>> >>))

\* The body of the loop over the desired flags: merged_config["values"][flag_name]
merged_value_set(terraform_config, current_config, flag_name) ==
    LET flag_def == get(item(terraform_config, "flags"), flag_name, EmptyDict)
        current_values == get(current_config, "values", EmptyDict)
        desired_set == get(item(terraform_config, "values"), flag_name, EmptyDict)
    IN IF has(current_values, flag_name)
       THEN LET observed_set == item(current_values, flag_name)
                preserved == preserve_metadata(observed_set, observed_set,
                                               keys(observed_set))
            IN IF has(flag_def, "attributes")
               THEN add_new_attributes(preserved, desired_set,
                                       keys(get(flag_def, "attributes", EmptyDict)))
               ELSE preserved
       ELSE get(item(terraform_config, "values"), flag_name,
                PyDict(<< <<"enabled", PyStr("false")>> >>))

RECURSIVE merge_flags(_, _, _, _)
merge_flags(values, terraform_config, current_config, todo) ==
    IF Len(todo) = 0 THEN values
    ELSE merge_flags(setitem(values, Head(todo),
                             merged_value_set(terraform_config, current_config, Head(todo))),
                     terraform_config, current_config, Tail(todo))

\* The loop "for key in current_config": top-level metadata not yet in merged
RECURSIVE preserve_top_level(_, _, _)
preserve_top_level(merged_config, current_config, todo) ==
    IF Len(todo) = 0 THEN merged_config
    ELSE LET key == Head(todo)
         IN preserve_top_level(
                IF startswith_underscore(key) /\ ~has(merged_config, key)
                THEN setitem(merged_config, key, item(current_config, key))
                ELSE merged_config,
                current_config, Tail(todo))

\* A reconciler that takes the merged version from the version it was handed,
\* "increment numeric version by 1", instead of the fixed token.
create_merged_config_incrementing(terraform_config, current_config, current_version) ==
    IF ~truthy(current_config) THEN terraform_config
    ELSE LET flags == item(terraform_config, "flags")
             values == merge_flags(EmptyDict, terraform_config, current_config, keys(flags))
             next_version == IF current_version = None THEN PyInt(1)
                             ELSE PyInt(current_version[2] + 1)
             merged_config == preserve_top_level(
                 PyDict(<< <<"flags", flags>>, <<"values", values>>,
                           <<"version", next_version>> >>),
                 current_config, keys(current_config))
         IN IF Len(flags[2]) # Len(values[2]) THEN SystemExit ELSE merged_config

\* The merged configuration, or SystemExit from the final validation.
\* current_version is only logged.
create_merged_config(terraform_config, current_config, current_version) ==
    IF ~truthy(current_config) THEN terraform_config
    ELSE LET flags == item(terraform_config, "flags")
             values == merge_flags(EmptyDict, terraform_config, current_config, keys(flags))
             merged_config == preserve_top_level(
                 PyDict(<< <<"flags", flags>>, <<"values", values>>,
                           <<"version", PyStr("1")>> >>),
                 current_config, keys(current_config))
         IN IF Len(flags[2]) # Len(values[2]) THEN SystemExit ELSE merged_config

(***************************************************************************)
(* Inputs: the desired documents (--config-file), the answers of the       *)
(* AppConfig store and the files found at the output path.                 *)
(***************************************************************************)
Enabled(value) == PyDict(<< <<"enabled", PyStr(value)>> >>)

FlagPlain == EmptyDict
FlagWithAttributes ==
    PyDict(<< <<"attributes",
                PyDict(<< <<"enabled", EmptyDict>>,
                          <<"x", PyDict(<< <<"enum", PyList(<<PyInt(2), PyInt(1)>>)>> >>)>>,
                          <<"y", EmptyDict>> >>)>> >>)
FlagMixedEnum ==
    PyDict(<< <<"attributes",
                PyDict(<< <<"x", PyDict(<< <<"enum", PyList(<<PyStr("a"), PyInt(1)>>)>> >>)>> >>)>> >>)

Config(flags, values) == PyDict(<< <<"flags", PyDict(flags)>>, <<"values", PyDict(values)>> >>)

\* Scenario 2 of the specification: two flags, empty value sets.
DesiredScenario2 ==
    Config(<< <<"A", FlagPlain>>, <<"B", FlagPlain>> >>,
           << <<"A", EmptyDict>>, <<"B", EmptyDict>> >>)
\* A flag declaring attributes, with desired values for two of them.
DesiredAttributes ==
    Config(<< <<"A", FlagWithAttributes>> >>,
           << <<"A", PyDict(<< <<"enabled", PyStr("false")>>, <<"x", PyStr("1")>> >>)>> >>)
\* Flag B has no entry in "values".
DesiredNoValuesForB ==
    Config(<< <<"A", FlagPlain>>, <<"B", FlagPlain>> >>,
           << <<"A", Enabled("false")>> >>)
\* The desired value set of B carries an underscore key.
DesiredWithMetadata ==
    Config(<< <<"A", FlagPlain>>, <<"B", FlagPlain>> >>,
           << <<"A", Enabled("false")>>,
              <<"B", PyDict(<< <<"enabled", PyStr("true")>>, <<"_createdAt", PyStr("tf")>> >>)>> >>)
\* A flag definition holding a list of a string and a number.
DesiredMixedEnum ==
    Config(<< <<"A", FlagMixedEnum>> >>, << <<"A", Enabled("false")>> >>)
\* "values" has an entry for a flag that "flags" does not define.
DesiredExtraValues ==
    Config(<< <<"A", FlagPlain>> >>,
           << <<"A", Enabled("false")>>, <<"C", Enabled("true")>> >>)
\* A document without "values".
DesiredMalformed == PyDict(<< <<"flags", PyDict(<< <<"A", FlagPlain>> >>)>> >>)

DesiredDocuments ==
    {DesiredScenario2, DesiredAttributes, DesiredNoValuesForB, DesiredWithMetadata,
     DesiredMixedEnum, DesiredExtraValues, DesiredMalformed}

\* Scenario 2 of the specification.
ObservedScenario2 ==
    PyDict(<< <<"flags", PyDict(<< <<"A", FlagPlain>> >>)>>,
              <<"values", PyDict(<< <<"A", PyDict(<< <<"enabled", PyStr("true")>>,
                                                     <<"_createdAt", PyStr("t0")>> >>)>> >>)>>,
              <<"version", PyStr("3")>> >>)
\* A flag that desired may drop, metadata on a flag and at the top level.
ObservedWithOwner ==
    PyDict(<< <<"flags", PyDict(<< <<"A", PyDict(<< <<"attributes",
                                      PyDict(<< <<"z", EmptyDict>> >>)>> >>)>>,
                                   <<"C", FlagPlain>> >>)>>,
              <<"values", PyDict(<< <<"A", PyDict(<< <<"_owner", PyStr("ops")>>,
                                                     <<"enabled", PyStr("true")>>,
                                                     <<"z", PyStr("9")>> >>)>>,
                                    <<"C", Enabled("true")>> >>)>>,
              <<"version", PyInt(3)>>,
              <<"_updatedAt", PyStr("t1")>> >>)
\* A stored document without "values".
ObservedNoValues ==
    PyDict(<< <<"flags", PyDict(<< <<"A", FlagPlain>> >>)>>, <<"version", PyStr("1")>> >>)

\* Both flags stored; the value set of A has an attribute and no "enabled".
ObservedBothFlags ==
    PyDict(<< <<"flags", PyDict(<< <<"A", FlagPlain>>, <<"B", FlagPlain>> >>)>>,
              <<"values", PyDict(<< <<"A", PyDict(<< <<"x", PyStr("7")>>,
                                                     <<"_modifiedAt", PyStr("t2")>> >>)>>,
                                    <<"B", Enabled("true")>> >>)>>,
              <<"version", PyStr("2")>> >>)

ObservedConfigs ==
    {ObservedScenario2, ObservedWithOwner, ObservedBothFlags, ObservedNoValues, EmptyDict}

\* What the store does when asked for the latest hosted configuration:
\*   ok               the content of the latest version is returned
\*   not_found        application, environment, profile or version missing,
\*                    or ClientError ResourceNotFoundException
\*   client_error     any other ClientError (access denied, throttling, ...)
\*   bad_content      the content of the latest version is not JSON
\*   connection_error an exception that is no ClientError (no endpoint)
StoreResponses ==
    {[kind |-> "ok", config |-> c, version |-> PyInt(3)] : c \in ObservedConfigs}
    \cup {[kind |-> k, config |-> None, version |-> None] :
             k \in {"not_found", "client_error", "bad_content", "connection_error"}}

\* A file: absent, or its text (a sequence of tokens)
NoFile == [exists |-> FALSE, text |-> <<>>]
File(text) == [exists |-> TRUE, text |-> text]

\* json.dump(content, f, indent=2): the text written
json_dump(content) == json_dumps(content, FALSE)
\* What a write that fails half way leaves in the file.
partial(text) == SubSeq(text, 1, Len(text) \div 2)

\* Files found at the output path before the first run: none, the merge
\* result of an earlier deployment, a truncated document.
EarlierMerge ==
    PyDict(<< <<"flags", PyDict(<< <<"A", FlagPlain>> >>)>>,
              <<"values", PyDict(<< <<"A", Enabled("true")>> >>)>>,
              <<"version", PyStr("1")>> >>)
InitialTargets == {NoFile, File(json_dump(EarlierMerge)), File(partial(json_dump(EarlierMerge)))}

(***************************************************************************)
(* State.                                                                  *)
(***************************************************************************)
VARIABLES
    pc,               \* where main() is; "exit0", "exit1", "killed" when the process is gone
    config_file,      \* the document at --config-file
    args,             \* [force_create, force_write] of this run
    terraform_config, \* main: terraform_config
    store_response,   \* what the store answered in this run
    current_config,   \* main: current_config
    current_version,  \* main: current_version
    merged_config,    \* main: merged_config
    no_changes,       \* main: no_changes
    fs,               \* [dir, target, temp]: output directory, output_path, output_path + ".tmp"
    write_error,      \* safely_write_file: the call that raised, "" when none
    cleanup,          \* safely_write_file: what the handler did with temp_path: "" before, "absent", "removed", "failed"
    write_result,     \* what safely_write_file returned, None before
    fs_at_start,      \* fs when this run started
    previous_run,     \* the previous run: whether it persisted its merge, and from which observed configuration
    config1,          \* comparison harness: first configuration
    config2,          \* comparison harness: second configuration
    are_equivalent    \* comparison harness: result of the comparison, None before

vars == <<pc, config_file, args, terraform_config, store_response, current_config,
          current_version, merged_config, no_changes, fs, write_error, cleanup,
          write_result, fs_at_start, previous_run, config1, config2, are_equivalent>>

run_vars == <<args, terraform_config, store_response, current_config, current_version,
              merged_config, no_changes, write_error, cleanup, write_result>>
harness_vars == <<config1, config2, are_equivalent>>

NoArgs == [force_create |-> FALSE, force_write |-> FALSE]
NoResponse == [kind |-> "", config |-> None, version |-> None]
NoPreviousRun == [persisted |-> FALSE, observed |-> None]

WriterPcs == {"w_mkdir", "w_temp", "w_remove", "w_rename", "w_cleanup"}
RunningPcs == {"loaded", "fetched", "merged", "log"} \cup WriterPcs
ExitedPcs == {"exit0", "exit1", "killed"}

(***************************************************************************)
(* load_terraform_config, get_current_appconfig, check_existing_merged_file*)
(***************************************************************************)
\* The configuration, or SystemExit when "flags" or "values" is missing.
load_terraform_config(document) ==
    IF has(document, "flags") /\ has(document, "values") THEN document ELSE SystemExit

\* <<configuration, version>>: only a parsed content is returned; every
\* caught failure gives <<None, None>>.
get_current_appconfig(response) ==
    IF response.kind = "ok" THEN <<response.config, response.version>>
    ELSE <<None, None>>

\* main without the check: the run goes on with no configuration.
exits_without_config_never(current, force_create) == FALSE

\* main: "if not current_config and not args.force_create: sys.exit(1)"
exits_without_config(current, force_create) == ~truthy(current) /\ ~force_create

\* False when the file is absent, is not JSON, or the comparison raises.
check_existing_merged_file(target, merged) ==
    IF target.exists
    THEN LET existing_config == json_loads(target.text)
         IN IF existing_config = JSONDecodeError THEN FALSE
            ELSE LET r == configs_are_functionally_equivalent(existing_config, merged)
                 IN IF r = TypeError THEN FALSE ELSE r[2]
    ELSE FALSE

(***************************************************************************)
(* main                                                                    *)
(***************************************************************************)
IdleRun ==
    /\ args = NoArgs
    /\ terraform_config = None
    /\ store_response = NoResponse
    /\ current_config = None
    /\ current_version = None
    /\ merged_config = None
    /\ no_changes = None
    /\ write_error = ""
    /\ cleanup = ""
    /\ write_result = None

IdleHarness ==
    /\ config1 = None
    /\ config2 = None
    /\ are_equivalent = None

Init ==
    /\ pc = "idle"
    /\ config_file \in DesiredDocuments
    /\ IdleRun
    /\ \E dir \in BOOLEAN, target \in InitialTargets :
          /\ dir \/ target = NoFile
          /\ fs = [dir |-> dir, target |-> target, temp |-> NoFile]
    /\ fs_at_start = fs
    /\ previous_run = NoPreviousRun
    /\ IdleHarness

\* parse_arguments and load_terraform_config
Load ==
    /\ pc = "idle"
    /\ \E force_create \in BOOLEAN, force_write \in BOOLEAN :
          args' = [force_create |-> force_create, force_write |-> force_write]
    /\ LET config == load_terraform_config(config_file)
       IN IF config = SystemExit
          THEN pc' = "exit1" /\ terraform_config' = None
          ELSE pc' = "loaded" /\ terraform_config' = config
    /\ UNCHANGED <<config_file, store_response, current_config, current_version,
                   merged_config, no_changes, fs, write_error, cleanup, write_result,
                   fs_at_start, previous_run, harness_vars>>

\* get_current_appconfig and the check that a configuration exists
Fetch ==
    /\ pc = "loaded"
    /\ \E response \in StoreResponses :
          /\ store_response' = response
          /\ IF response.kind = "connection_error"
             THEN /\ pc' = "exit1"
                  /\ UNCHANGED <<current_config, current_version>>
             ELSE LET r == get_current_appconfig(response)
                  IN /\ current_config' = r[1]
                     /\ current_version' = r[2]
                     /\ pc' = IF exits_without_config(r[1], args.force_create)
                              THEN "exit1" ELSE "fetched"
    /\ UNCHANGED <<config_file, args, terraform_config, merged_config, no_changes, fs,
                   write_error, cleanup, write_result, fs_at_start, previous_run,
                   harness_vars>>

\* the merge
Merge ==
    /\ pc = "fetched"
    /\ LET merged == IF ~truthy(current_config) /\ args.force_create
                     THEN terraform_config
                     ELSE create_merged_config(terraform_config, current_config,
                              IF truthy(current_version) THEN current_version ELSE PyStr("0"))
       IN IF merged = SystemExit
          THEN pc' = "exit1" /\ UNCHANGED merged_config
          ELSE pc' = "merged" /\ merged_config' = merged
    /\ UNCHANGED <<config_file, args, terraform_config, store_response, current_config,
                   current_version, no_changes, fs, write_error, cleanup, write_result,
                   fs_at_start, previous_run, harness_vars>>

\* check_existing_merged_file and the decision to write
Compare ==
    /\ pc = "merged"
    /\ LET same == check_existing_merged_file(fs.target, merged_config)
       IN /\ no_changes' = PyBool(same)
          /\ pc' = IF same /\ ~args.force_write THEN "log" ELSE "w_mkdir"
    /\ UNCHANGED <<config_file, args, terraform_config, store_response, current_config,
                   current_version, merged_config, fs, write_error, cleanup,
                   write_result, fs_at_start, previous_run, harness_vars>>

(***************************************************************************)
(* safely_write_file, one action per file system call.  A call that fails  *)
(* raises; the handler is CleanUp.                                         *)
(***************************************************************************)
writer_unchanged == <<config_file, args, terraform_config, store_response, current_config,
                      current_version, merged_config, no_changes, fs_at_start,
                      previous_run, harness_vars>>

\* os.makedirs(output_dir) when the directory is missing; sys.exit(1) when it fails
EnsureDir ==
    /\ pc = "w_mkdir"
    /\ IF fs.dir
       THEN pc' = "w_temp" /\ UNCHANGED fs
       ELSE \E ok \in BOOLEAN :
               IF ok THEN pc' = "w_temp" /\ fs' = [fs EXCEPT !.dir = TRUE]
               ELSE pc' = "exit1" /\ UNCHANGED fs
    /\ UNCHANGED <<write_error, cleanup, write_result>>
    /\ UNCHANGED writer_unchanged

\* with open(temp_path, 'w') as f: json.dump(content, f, indent=2)
WriteTemp ==
    /\ pc = "w_temp"
    /\ \E outcome \in {"ok", "open", "write"} :
          CASE outcome = "ok" ->
                  /\ fs' = [fs EXCEPT !.temp = File(json_dump(merged_config))]
                  /\ pc' = "w_remove"
                  /\ UNCHANGED write_error
            [] outcome = "open" ->
                  /\ pc' = "w_cleanup"
                  /\ write_error' = "open"
                  /\ UNCHANGED fs
            [] outcome = "write" ->
                  /\ fs' = [fs EXCEPT !.temp = File(partial(json_dump(merged_config)))]
                  /\ pc' = "w_cleanup"
                  /\ write_error' = "write"
    /\ UNCHANGED <<cleanup, write_result>>
    /\ UNCHANGED writer_unchanged

\* if os.path.exists(output_path): os.remove(output_path)
RemoveTarget ==
    /\ pc = "w_remove"
    /\ IF fs.target.exists
       THEN \E ok \in BOOLEAN :
               IF ok THEN /\ fs' = [fs EXCEPT !.target = NoFile]
                          /\ pc' = "w_rename"
                          /\ UNCHANGED write_error
               ELSE /\ pc' = "w_cleanup"
                    /\ write_error' = "remove"
                    /\ UNCHANGED fs
       ELSE pc' = "w_rename" /\ UNCHANGED <<fs, write_error>>
    /\ UNCHANGED <<cleanup, write_result>>
    /\ UNCHANGED writer_unchanged

\* os.rename(temp_path, output_path); return True
RenameTemp ==
    /\ pc = "w_rename"
    /\ \E ok \in BOOLEAN :
          IF ok THEN /\ fs' = [fs EXCEPT !.target = fs.temp, !.temp = NoFile]
                     /\ write_result' = PyBool(TRUE)
                     /\ pc' = "log"
                     /\ UNCHANGED write_error
          ELSE /\ pc' = "w_cleanup"
               /\ write_error' = "rename"
               /\ UNCHANGED <<fs, write_result>>
    /\ UNCHANGED cleanup
    /\ UNCHANGED writer_unchanged

\* The handler without the removal of the temporary file.
CleanUpWithoutRemoval ==
    /\ pc = "w_cleanup"
    /\ cleanup' = "absent"
    /\ write_result' = PyBool(FALSE)
    /\ pc' = "exit1"
    /\ UNCHANGED <<fs, write_error>>
    /\ UNCHANGED writer_unchanged

\* except Exception: remove the temporary file if it exists, ignoring a
\* failure of the removal; return False, on which main exits with 1
CleanUp ==
    /\ pc = "w_cleanup"
    /\ IF fs.temp.exists
       THEN \E ok \in BOOLEAN :
               IF ok THEN fs' = [fs EXCEPT !.temp = NoFile] /\ cleanup' = "removed"
               ELSE cleanup' = "failed" /\ UNCHANGED fs
       ELSE cleanup' = "absent" /\ UNCHANGED fs
    /\ write_result' = PyBool(FALSE)
    /\ pc' = "exit1"
    /\ UNCHANGED write_error
    /\ UNCHANGED writer_unchanged

\* the merged file is read back and logged; sys.exit(0)
LogAndExit ==
    /\ pc = "log"
    /\ pc' = "exit0"
    /\ UNCHANGED <<config_file, run_vars, fs, fs_at_start, previous_run, harness_vars>>

\* The process is interrupted: nothing of it is left but the files.
Kill ==
    /\ pc \in RunningPcs
    /\ pc' = "killed"
    /\ UNCHANGED <<config_file, run_vars, fs, fs_at_start, previous_run, harness_vars>>

\* The next run of the pipeline, with the same --config-file.
NextRun ==
    /\ pc \in ExitedPcs
    /\ pc' = "idle"
    /\ previous_run' = IF pc = "exit0" /\ write_result = PyBool(TRUE)
                       THEN [persisted |-> TRUE, observed |-> current_config]
                       ELSE NoPreviousRun
    /\ fs_at_start' = fs
    /\ args' = NoArgs
    /\ terraform_config' = None
    /\ store_response' = NoResponse
    /\ current_config' = None
    /\ current_version' = None
    /\ merged_config' = None
    /\ no_changes' = None
    /\ write_error' = ""
    /\ cleanup' = ""
    /\ write_result' = None
    /\ UNCHANGED <<config_file, fs, harness_vars>>

Next ==
    \/ Load
    \/ Fetch
    \/ Merge
    \/ Compare
    \/ EnsureDir
    \/ WriteTemp
    \/ RemoveTarget
    \/ RenameTemp
    \/ CleanUp
    \/ LogAndExit
    \/ Kill
    \/ NextRun

Spec == Init /\ [][Next]_vars

(***************************************************************************)
(* create_merged_config on its own: the inputs are drawn, the function is  *)
(* applied once.                                                           *)
(***************************************************************************)
InitMerge ==
    /\ pc = "call"
    /\ config_file = DesiredScenario2
    /\ args = NoArgs
    /\ terraform_config \in {d \in DesiredDocuments : load_terraform_config(d) # SystemExit}
    /\ store_response = NoResponse
    /\ current_config \in ObservedConfigs \cup {None}
    /\ current_version \in {None, PyInt(3)}
    /\ merged_config = None
    /\ no_changes = None
    /\ fs = [dir |-> FALSE, target |-> NoFile, temp |-> NoFile]
    /\ write_error = ""
    /\ cleanup = ""
    /\ write_result = None
    /\ fs_at_start = fs
    /\ previous_run = NoPreviousRun
    /\ IdleHarness

CallCreateMergedConfig ==
    /\ pc = "call"
    /\ LET merged == create_merged_config(terraform_config, current_config, current_version)
       IN IF merged = SystemExit
          THEN pc' = "exit1" /\ UNCHANGED merged_config
          ELSE pc' = "returned" /\ merged_config' = merged
    /\ UNCHANGED <<config_file, args, terraform_config, store_response, current_config,
                   current_version, no_changes, fs, write_error, cleanup, write_result,
                   fs_at_start, previous_run, harness_vars>>

NextMerge == CallCreateMergedConfig

SpecMerge == InitMerge /\ [][NextMerge]_vars

(***************************************************************************)
(* configs_are_functionally_equivalent on its own: config2 starts as       *)
(* config1 and is changed only in ways the comparison is meant to ignore.  *)
(***************************************************************************)
Primitives == {PyInt(1), PyInt(2), PyBool(TRUE), PyStr("a"), PyStr("b")}
PrimitiveLists == UNION {[1..n -> Primitives] : n \in 0..MaxListLen}

CompareInput(enum) ==
    PyDict(<< <<"flags", PyDict(<< <<"A", PyDict(<< <<"attributes",
                  PyDict(<< <<"x", PyDict(<< <<"enum", PyList(enum)>>,
                                             <<"type", PyStr("a")>> >>)>> >>)>> >>)>> >>)>>,
              <<"values", PyDict(<< <<"A", PyDict(<< <<"enabled", PyStr("true")>>,
                                                     <<"_owner", PyStr("ops")>> >>)>> >>)>>,
              <<"version", PyStr("1")>>,
              <<"_updatedAt", PyStr("t1")>> >>)

Reverse(seq) == [i \in 1..Len(seq) |-> seq[Len(seq) + 1 - i]]
RotateLeft(seq) == IF Len(seq) = 0 THEN seq ELSE Append(Tail(seq), Head(seq))

\* The same configuration with the keys of every mapping in reverse order.
RECURSIVE reverse_keys(_)
reverse_keys(obj) ==
    IF obj[1] = "dict"
    THEN PyDict(Reverse([i \in 1..Len(obj[2]) |-> <<obj[2][i][1], reverse_keys(obj[2][i][2])>>]))
    ELSE IF obj[1] = "list"
    THEN PyList([i \in 1..Len(obj[2]) |-> reverse_keys(obj[2][i])])
    ELSE obj

\* The same configuration with every list of primitives reversed or rotated.
RECURSIVE reorder_lists(_, _)
reorder_lists(obj, how) ==
    IF obj[1] = "dict"
    THEN PyDict([i \in 1..Len(obj[2]) |-> <<obj[2][i][1], reorder_lists(obj[2][i][2], how)>>])
    ELSE IF obj[1] = "list"
    THEN IF \A i \in 1..Len(obj[2]) : is_simple(obj[2][i])
         THEN PyList(IF how = "reverse" THEN Reverse(obj[2]) ELSE RotateLeft(obj[2]))
         ELSE PyList([i \in 1..Len(obj[2]) |-> reorder_lists(obj[2][i], how)])
    ELSE obj

\* The same configuration with the underscore keys of every mapping dropped
\* and, when a value is given, the key "_note" set in every mapping.
RECURSIVE change_metadata(_, _)
change_metadata(obj, note) ==
    IF obj[1] = "dict"
    THEN LET kept == SelectSeq(obj[2], LAMBDA p : ~startswith_underscore(p[1]))
             inner == PyDict([i \in 1..Len(kept) |->
                                 <<kept[i][1], change_metadata(kept[i][2], note)>>])
         IN IF note = None THEN inner ELSE setitem(inner, "_note", note)
    ELSE IF obj[1] = "list"
    THEN PyList([i \in 1..Len(obj[2]) |-> change_metadata(obj[2][i], note)])
    ELSE obj

InitCompare ==
    /\ pc = "compare"
    /\ config_file = DesiredScenario2
    /\ IdleRun
    /\ fs = [dir |-> FALSE, target |-> NoFile, temp |-> NoFile]
    /\ fs_at_start = fs
    /\ previous_run = NoPreviousRun
    /\ config1 \in {CompareInput(enum) : enum \in PrimitiveLists}
    /\ config2 = config1
    /\ are_equivalent = None

harness_unchanged == <<pc, config_file, run_vars, fs, fs_at_start, previous_run, config1>>

\* (iii) the order of the keys of the mappings
ReorderKeys ==
    /\ are_equivalent = None
    /\ \E deep \in BOOLEAN :
          config2' = IF deep THEN reverse_keys(config2) ELSE PyDict(Reverse(config2[2]))
    /\ UNCHANGED are_equivalent
    /\ UNCHANGED harness_unchanged

\* (iv) the order of the elements of a list of primitives
ReorderList ==
    /\ are_equivalent = None
    /\ \E how \in {"reverse", "rotate"} :
          config2' = setitem(config2, "flags", reorder_lists(item(config2, "flags"), how))
    /\ UNCHANGED are_equivalent
    /\ UNCHANGED harness_unchanged

\* (ii) underscore keys at any depth inside flags and values
ChangeMetadata ==
    /\ are_equivalent = None
    /\ \E note \in {None, PyStr("n")}, field \in {"flags", "values"} :
          config2' = setitem(config2, field,
                             PyDict([i \in 1..Len(item(config2, field)[2]) |->
                                 <<item(config2, field)[2][i][1],
                                   change_metadata(item(config2, field)[2][i][2], note)>>]))
    /\ UNCHANGED are_equivalent
    /\ UNCHANGED harness_unchanged

\* (i) top-level fields other than flags, values and version
ChangeTopLevel ==
    /\ are_equivalent = None
    /\ \E key \in {"_updatedAt", "description"} :
          config2' = setitem(config2, key, PyStr("b"))
    /\ UNCHANGED are_equivalent
    /\ UNCHANGED harness_unchanged

CompareConfigs ==
    /\ are_equivalent = None
    /\ are_equivalent' = configs_are_functionally_equivalent(config1, config2)
    /\ UNCHANGED config2
    /\ UNCHANGED harness_unchanged

NextCompare ==
    \/ ReorderKeys
    \/ ReorderList
    \/ ChangeMetadata
    \/ ChangeTopLevel
    \/ CompareConfigs

SpecCompare == InitCompare /\ [][NextCompare]_vars

(***************************************************************************)
(* Properties.                                                             *)
(***************************************************************************)
\* Python's == on values: mappings compare without order, True equals 1.
RECURSIVE py_eq(_, _)
py_eq(a, b) ==
    IF a[1] = "dict" /\ b[1] = "dict"
    THEN keyset(a) = keyset(b) /\ \A k \in keyset(a) : py_eq(item(a, k), item(b, k))
    ELSE IF a[1] = "list" /\ b[1] = "list"
    THEN Len(a[2]) = Len(b[2]) /\ \A i \in 1..Len(a[2]) : py_eq(a[2][i], b[2][i])
    ELSE IF a[1] \in {"int", "bool"} /\ b[1] \in {"int", "bool"}
    THEN number(a) = number(b)
    ELSE a = b

desired_flags == keyset(item(terraform_config, "flags"))
desired_values == item(terraform_config, "values")
observed_values == get(current_config, "values", EmptyDict)
merged_values == item(merged_config, "values")
\* create_merged_config has returned a merge with an observed configuration
merged_with_observed == pc = "returned" /\ truthy(current_config)
kept_flags == desired_flags \cap keyset(observed_values)
new_flags == desired_flags \ keyset(observed_values)

\* C1: every configuration create_merged_config returns has the same keys in
\* "flags" and in "values", with or without an observed configuration.
C1_FlagsValuesSymmetry ==
    pc = "returned" =>
        keyset(item(merged_config, "flags")) = keyset(item(merged_config, "values"))

\* C2: with an observed configuration, every key of the observed value set of
\* a flag that desired keeps is in the merged value set with the observed
\* value; no desired value replaces it.
C2_ObservedValuesKept ==
    merged_with_observed =>
        \A flag \in kept_flags :
            \A key \in keyset(item(observed_values, flag)) :
                /\ has(item(merged_values, flag), key)
                /\ item(item(merged_values, flag), key) = item(item(observed_values, flag), key)

\* C2 witness: a merge where a kept flag has observed metadata and an observed
\* attribute that desired declares and gives another value.
C2_Witness ==
    /\ merged_with_observed
    /\ \E flag \in kept_flags :
          LET observed_set == item(observed_values, flag)
              desired_set == get(desired_values, flag, EmptyDict)
              attributes == get(get(item(terraform_config, "flags"), flag, EmptyDict),
                                "attributes", EmptyDict)
          IN /\ \E key \in keyset(observed_set) : startswith_underscore(key)
             /\ \E key \in keyset(observed_set) \cap keyset(desired_set) \cap keyset(attributes) :
                   item(observed_set, key) # item(desired_set, key)

\* C3: with an observed configuration, the merged value set of a flag that is
\* not in observed "values" has no key starting with an underscore.
C3_NoMetadataFabricated ==
    merged_with_observed =>
        \A flag \in new_flags :
            \A key \in keyset(item(merged_values, flag)) : ~startswith_underscore(key)

\* C4: with an observed configuration, the merged value set of a flag that is
\* not in observed "values" is the desired value set when desired gives
\* values for it, and {"enabled": "false"} when it gives none, an empty
\* mapping included.
C4_NewFlagValues ==
    merged_with_observed =>
        \A flag \in new_flags :
            item(merged_values, flag) =
                IF has(desired_values, flag) /\ truthy(item(desired_values, flag))
                THEN item(desired_values, flag)
                ELSE Enabled("false")

\* C10: the comparison is true for two configurations that differ only in
\* top-level fields other than flags, values and version, in underscore keys
\* inside flags and values, in the order of keys or in the order of a list of
\* primitives, and their normalized flags, values and version are the same.
C10_IgnoredDifferences ==
    are_equivalent # None =>
        /\ are_equivalent = PyBool(TRUE)
        /\ \A field \in {"flags", "values", "version"} :
              LET n1 == normalize_for_comparison(get(config1, field, EmptyDict))
                  n2 == normalize_for_comparison(get(config2, field, EmptyDict))
              IN n1 # TypeError /\ n2 # TypeError /\ py_eq(n1, n2)

\* C5: while safely_write_file has written the temporary file and has not yet
\* renamed it, and when the process is interrupted there, the target holds
\* what it held before the call: it is never missing or half-written.
C5_TargetKeptUntilRename ==
    (pc \in {"w_remove", "w_rename", "w_cleanup", "killed"} /\ write_result = None) =>
        fs.target = fs_at_start.target

\* C6: when the previous run persisted its merge and this run has the same
\* desired and observed configuration, the comparison with the persisted
\* file is true and safely_write_file is called only under --force-write.
C6_SecondRunSkipsWrite ==
    (previous_run.persisted /\ previous_run.observed = current_config /\ no_changes # None) =>
        /\ no_changes = PyBool(TRUE)
        /\ (pc \in WriterPcs \/ write_result # None) => args.force_write

\* C7: when the store reports no configuration and --force-create is not
\* set, the run exits with 1 before any merge or write and the files are
\* untouched; with --force-create the merged configuration is the desired
\* configuration unchanged.
C7_NoObservedConfiguration ==
    /\ (store_response.kind = "not_found" /\ ~args.force_create) =>
          /\ pc = "exit1"
          /\ merged_config = None
          /\ no_changes = None
          /\ write_result = None
          /\ fs = fs_at_start
    /\ (store_response.kind = "not_found" /\ args.force_create /\ merged_config # None) =>
          merged_config = terraform_config

\* C7 witness: the run has exited with 1 on a missing configuration while an
\* output file exists.
C7_Witness ==
    /\ store_response.kind = "not_found"
    /\ ~args.force_create
    /\ pc = "exit1"
    /\ fs.target.exists

\* C8: when the store fails with an error other than "not found", the run
\* exits with 1 and writes nothing, with or without --force-create.
C8_StoreErrorAborts ==
    store_response.kind \in {"client_error", "connection_error"} =>
        /\ pc = "exit1"
        /\ merged_config = None
        /\ write_result = None
        /\ fs = fs_at_start

\* The target is not partially written: it is as before the call, or absent.
TargetNotPartial == fs.target \in {fs_at_start.target, NoFile}

\* C9 as stated: when safely_write_file has returned no temporary file
\* remains; on success the target holds the complete content, on failure
\* False was returned and the target is not partially written.
C9_NoTemporaryFileLeft ==
    write_result # None =>
        /\ ~fs.temp.exists
        /\ write_result = PyBool(TRUE) => fs.target = File(json_dump(merged_config))
        /\ write_result = PyBool(FALSE) => TargetNotPartial

\* C9 amended: on success no temporary file remains and the target holds the
\* complete content; on failure False is returned, the target is not
\* partially written, and the temporary file remains exactly when its
\* removal by the handler failed.
C9_TemporaryFileCleanedUp ==
    write_result # None =>
        /\ write_result = PyBool(TRUE) =>
              /\ ~fs.temp.exists
              /\ fs.target = File(json_dump(merged_config))
        /\ write_result = PyBool(FALSE) =>
              /\ write_error \in {"open", "write", "remove", "rename"}
              /\ TargetNotPartial
              /\ fs.temp.exists <=> cleanup = "failed"

\* C9 witness: the rename failed and the handler removed the temporary file.
C9_Witness ==
    /\ write_result = PyBool(FALSE)
    /\ write_error = "rename"
    /\ cleanup = "removed"
    /\ ~fs.temp.exists

\* The number a version stands for: versions are numbers or strings of digits.
version_number(version) ==
    IF version[1] = "int" THEN version[2] ELSE atoi(0, version[2])

observed_version == item(current_config, "version")
merged_version == item(merged_config, "version")

declared_attributes(flag_name) ==
    keyset(get(item(item(terraform_config, "flags"), flag_name), "attributes", EmptyDict))

\* The declared attributes that the reconcile adds to a flag's value set: those
\* absent from the observed value set and present in the desired value set.
added_attributes(flag_name) ==
    { attr_name \in declared_attributes(flag_name) :
        /\ ~has(item(observed_values, flag_name), attr_name)
        /\ has(get(desired_values, flag_name, EmptyDict), attr_name) }

\* C12: when an observed configuration is present, for every flag in desired
\* "flags" and observed "values", every declared attribute that is absent from
\* the observed value set and present in the desired value set is in the merged
\* value set with the desired value, and the merged value set has no key other
\* than the observed keys and the attributes added this way.
C12_AttributesReconciled ==
    merged_with_observed =>
        \A flag_name \in kept_flags :
            LET merged_set == item(merged_values, flag_name)
                observed_set == item(observed_values, flag_name)
                desired_set == get(desired_values, flag_name, EmptyDict)
            IN /\ \A attr_name \in added_attributes(flag_name) :
                      /\ has(merged_set, attr_name)
                      /\ item(merged_set, attr_name) = item(desired_set, attr_name)
               /\ keyset(merged_set) =
                      keyset(observed_set) \cup added_attributes(flag_name)

\* C12 witness: the merge returned for a kept flag that had one declared
\* attribute added, one declared attribute left out because the desired value
\* set lacks it, and one declared attribute the observed value set already held.
C12_Witness ==
    /\ merged_with_observed
    /\ \E flag_name \in kept_flags :
          /\ added_attributes(flag_name) # {}
          /\ \E attr_name \in declared_attributes(flag_name) :
                /\ ~has(item(observed_values, flag_name), attr_name)
                /\ ~has(get(desired_values, flag_name, EmptyDict), attr_name)
          /\ \E attr_name \in declared_attributes(flag_name) :
                has(item(observed_values, flag_name), attr_name)

====
